---------------------------- MODULE Spec2Model ----------------------------
(***************************************************************************)
(* Model of lib/loader/loader.c: the load-time handshake of the loader     *)
(* (frida_loader_on_load, on the startup thread) and the agent bootstrap   *)
(* (frida_loader_run, on a detached thread), with the framed I/O helpers   *)
(* frida_loader_send*, frida_loader_recv*.                                 *)
(*                                                                         *)
(* One action is one system or library call of a thread together with the  *)
(* thread-local code that follows it up to the next call, so that the two  *)
(* threads interleave at call granularity.                                 *)
(***************************************************************************)
EXTENDS Integers, Sequences, FiniteSets, TLC

(***************************************************************************)
(* Bounds of the model.                                                    *)
(***************************************************************************)
MaxAddrLen == 2     \* longest rendezvous address the controller sends
MaxTokLen  == 1     \* longest resume token the controller sends
MaxOverrun == 1     \* most bytes read past the end of an unterminated buffer
MaxValLen  == 3     \* longest value of arbitrary bytes given to send_value

(***************************************************************************)
(* Program constants.                                                      *)
(***************************************************************************)
Uint8Mod == 256     \* uint8_t size
NULL     == 0       \* the null pointer / the value 0 of the reserved arguments
SizeLen  == 1       \* sizeof (size), the length prefix
Ascii0   == 48      \* '0', first digit of the "%d" rendering

\* The bytes values are made of: the zero byte, which ends a C string, and one
\* other; no code of the loader tells two non-zero bytes apart.
Bytes == {0, 65}

\* The resume tokens: one of every length; their content is never read.
Tokens == {[i \in 1 .. n |-> 65] : n \in 0 .. MaxTokLen}

RECURSIVE SeqsUpTo(_, _)
SeqsUpTo(S, n) ==
  IF n = 0 THEN {<<>>}
  ELSE LET shorter == SeqsUpTo(S, n - 1)
       IN  shorter \cup {Append(q, b) : q \in {x \in shorter : Len(x) = n - 1}, b \in S}

Min(a, b) == IF a < b THEN a ELSE b

Pids == {7, 42}     \* process identifiers getpid () may return

VARIABLES
  proc,          \* the host process: "alive", or the signal that killed it
  hs,            \* position of the startup thread in frida_loader_on_load
  s,             \* the socket: "unset", "invalid" (-1), "open", "closed"
  closes,        \* number of close (s) calls issued
  pid,           \* getpid ()
  v,             \* frida_loader_send: the rendered string (pointer target)
  success,       \* frida_loader_send: result of frida_loader_send_value
  size,          \* uint8_t size of send_value / recv_value
  offset,        \* size_t offset of send_bytes / recv_bytes
  sent,          \* bytes the channel accepted from the loader, in order
  addr,          \* the rendezvous address the controller sends
  token,         \* the resume token the controller sends
  rpos,          \* number of bytes of the controller's stream consumed
  buf,           \* recv_value: buf, "NULL" or the name of a heap block
  ret,           \* value returned by the last frida_loader_recv_value
  rx,            \* per recv_value call: "idle", "busy", "value", "closed", "error"
  pipe_address,  \* on_load / run: "unset", "NULL" or a heap block
  heap,          \* heap blocks: state, contents, frees, who freed
  badFree,       \* the functions that passed free () a pointer neither NULL nor live
  thread,        \* pthread_t thread: "unset", "valid", "indeterminate"
  detached,      \* pthread_detach succeeded on the bootstrap thread
  badThreadOp,   \* a pthread call was made on an indeterminate handle
  bpc,           \* position of the bootstrap thread in frida_loader_run
  agent,         \* dlopen handle: "unset", "NULL", "open", "closed"
  agent_main,    \* dlsym result: "unset", "NULL", "found"
  entryCalls,    \* number of invocations of frida_agent_main
  entryArgs,     \* arguments of the invocation, data_string as the callee reads it
  dlcloses,      \* number of dlclose calls
  lastCall       \* how the latest send () / recv () ended: "none", "data",
                 \* "closed", "EINTR", "error"

vars == << proc, hs, s, closes, pid, v, success, size, offset, sent, addr, token,
           rpos, buf, ret, rx, pipe_address, heap, badFree, thread, detached,
           badThreadOp, bpc, agent, agent_main, entryCalls, entryArgs, dlcloses,
           lastCall >>

startupVars == << hs, s, closes, v, success, size, offset, sent, rpos, buf, ret,
                  rx, pipe_address, thread, detached, badThreadOp, lastCall >>
bootVars    == << bpc, agent, agent_main, entryCalls, entryArgs, dlcloses >>

Blocks == {"v", "addr", "tok"}

NoBlock == [st |-> "unalloc", bytes |-> <<>>, frees |-> 0, by |-> "none"]

(***************************************************************************)
(* malloc / free.                                                          *)
(***************************************************************************)
Alloc(h, p) == [h EXCEPT ![p] = [@ EXCEPT !.st = "live"]]

Free(h, p, who) ==
  IF p \in Blocks
  THEN [h EXCEPT ![p] = [@ EXCEPT !.st = "freed", !.frees = @ + 1, !.by = who]]
  ELSE h

\* free (p) called in function f, recorded when p is neither NULL nor live
BadFree(h, p, f) ==
  IF p # "NULL" /\ (p \notin Blocks \/ h[p].st # "live") THEN {f} ELSE {}

\* the bytes that p points at
Mem(h, p) == IF p \in Blocks THEN h[p].bytes ELSE << >>

(***************************************************************************)
(* Strings and the wire format.                                            *)
(***************************************************************************)
\* vasprintf (&v, "%d", pid): the decimal digits of pid as characters
RECURSIVE Decimal(_)
Decimal(n) ==
  IF n < 10 THEN << Ascii0 + n >>
  ELSE Append(Decimal(n \div 10), Ascii0 + (n % 10))

\* what a reader of a C string finds in mem: the bytes before the first zero
CString(mem) ==
  LET zeros == {i \in 1 .. Len(mem) : mem[i] = 0} IN
  IF zeros = {} THEN mem
  ELSE SubSeq(mem, 1, (CHOOSE i \in zeros : \A j \in zeros : i <= j) - 1)

HasTerminator(mem) == \E i \in 1 .. Len(mem) : mem[i] = 0

\* SizeOf taking the length of the whole buffer, zero bytes inside included
SizeOf_WholeBuffer(str) == Len(str) % Uint8Mod

\* SizeOf with size as wide as strlen's result
SizeOf_Wide(str) == Len(CString(str))

\* strlen (v), stored into uint8_t size
SizeOf(str) == Len(CString(str)) % Uint8Mod

\* one value on the wire: a length byte, then that many bytes
Frame(x) == << Len(x) % Uint8Mod >> \o x

\* the bytes the controller sends: the rendezvous address, then the resume token
Stream == Frame(addr) \o Frame(token)

(***************************************************************************)
(* Results of one send () / recv () call.                                  *)
(***************************************************************************)
\* a call interrupted by a signal; the program keeps no count of these
Interrupts == {[n |-> -1, errno |-> "EINTR"]}

\* send (s, bytes + offset, k, 0): accepts 1..k bytes, is interrupted, or fails
SendResults(k) ==
  {[n |-> j, errno |-> "none"] : j \in 1 .. k}
    \cup Interrupts \cup {[n |-> -1, errno |-> "EPIPE"]}

\* recv (s, bytes + offset, k, 0) into block p: delivers 1..k bytes of the
\* stream, reports that the peer closed (0), is interrupted, or fails; with no
\* block to store into (p is NULL) it can only fail
RecvResultsOn(str, p, k) ==
  IF p = "NULL"
  THEN {[n |-> -1, errno |-> "EFAULT"], [n |-> 0, errno |-> "none"]}
  ELSE {[n |-> j, errno |-> "none"] : j \in 1 .. Min(k, Len(str) - rpos)}
         \cup {[n |-> 0, errno |-> "none"]}
         \cup Interrupts \cup {[n |-> -1, errno |-> "ECONNRESET"]}

\* recv () on the control channel, whose peer is the controller
RecvResults(p, k) == RecvResultsOn(Stream, p, k)

\* how a call that returned r ended
Kind(r) ==
  IF r.n > 0 THEN "data"
  ELSE IF r.n = 0 THEN "closed"
       ELSE IF r.errno = "EINTR" THEN "EINTR" ELSE "error"

\* send_bytes taking one accepted send for the whole of the bytes
send_bytes_AssumeAll(off, sz, r) ==
  IF r.n # -1
  THEN [offset |-> off + r.n, ret |-> "true"]
  ELSE IF r.errno # "EINTR"
       THEN [offset |-> off, ret |-> "false"]
       ELSE [offset |-> off, ret |-> "loop"]

\* one iteration of the loop of frida_loader_send_bytes on result r
send_bytes(off, sz, r) ==
  IF r.n # -1
  THEN [offset |-> off + r.n,
        ret |-> IF off + r.n # sz THEN "loop" ELSE "true"]
  ELSE IF r.errno # "EINTR"
       THEN [offset |-> off, ret |-> "false"]
       ELSE [offset |-> off, ret |-> "loop"]

\* recv_bytes with the end of the stream taken for the end of the value
recv_bytes_CloseIsDone(off, sz, r) ==
  IF r.n > 0
  THEN [offset |-> off + r.n,
        ret |-> IF off + r.n # sz THEN "loop" ELSE "true"]
  ELSE IF r.n = 0
       THEN [offset |-> off, ret |-> "true"]
       ELSE IF r.n = -1 /\ r.errno # "EINTR"
            THEN [offset |-> off, ret |-> "false"]
            ELSE [offset |-> off, ret |-> "loop"]

\* recv_bytes returning after the first bytes that arrive
recv_bytes_NoLoop(off, sz, r) ==
  IF r.n > 0
  THEN [offset |-> off + r.n, ret |-> "true"]
  ELSE IF r.n = 0
       THEN [offset |-> off, ret |-> "false"]
       ELSE IF r.n = -1 /\ r.errno # "EINTR"
            THEN [offset |-> off, ret |-> "false"]
            ELSE [offset |-> off, ret |-> "loop"]

\* recv_bytes giving up on an interrupted call
recv_bytes_NoRetry(off, sz, r) ==
  IF r.n > 0
  THEN [offset |-> off + r.n,
        ret |-> IF off + r.n # sz THEN "loop" ELSE "true"]
  ELSE [offset |-> off, ret |-> "false"]

\* one iteration of the loop of frida_loader_recv_bytes on result r
recv_bytes(off, sz, r) ==
  IF r.n > 0
  THEN [offset |-> off + r.n,
        ret |-> IF off + r.n # sz THEN "loop" ELSE "true"]
  ELSE IF r.n = 0
       THEN [offset |-> off, ret |-> "false"]
       ELSE IF r.n = -1 /\ r.errno # "EINTR"
            THEN [offset |-> off, ret |-> "false"]
            ELSE [offset |-> off, ret |-> "loop"]

(***************************************************************************)
(* Initial state: the library has just been mapped, the constructor has    *)
(* not run.  The controller has chosen what it will send.                  *)
(***************************************************************************)
Init ==
  /\ proc = "alive"
  /\ hs = "socket"
  /\ s = "unset"
  /\ closes = 0
  /\ pid \in Pids
  /\ v = [ptr |-> "unset", str |-> <<>>]
  /\ success = FALSE
  /\ size = 0
  /\ offset = 0
  /\ sent = <<>>
  /\ addr \in SeqsUpTo(Bytes, MaxAddrLen)
  /\ token \in Tokens
  /\ rpos = 0
  /\ buf = "NULL"
  /\ ret = "NULL"
  /\ rx = [w \in {"addr", "tok"} |-> "idle"]
  /\ pipe_address = "unset"
  /\ heap = [b \in Blocks |-> NoBlock]
  /\ badFree = {}
  /\ thread = "unset"
  /\ detached = FALSE
  /\ badThreadOp = FALSE
  /\ bpc = "NotStarted"
  /\ agent = "unset"
  /\ agent_main = "unset"
  /\ entryCalls = 0
  /\ entryArgs = << >>
  /\ dlcloses = 0
  /\ lastCall = "none"

(***************************************************************************)
(* The startup thread: frida_loader_on_load.                               *)
(***************************************************************************)
envVars    == << pid, addr, token >>
sendVars   == << v, success, sent >>
recvVars   == << rpos, buf, ret, rx >>
threadVars == << thread, detached, badThreadOp >>

\* s = socket (AF_UNIX, SOCK_STREAM, 0); if (s == -1) goto beach;
Socket ==
  /\ proc = "alive" /\ hs = "socket"
  /\ \E fd \in {"open", "invalid"} :
       /\ s' = fd
       /\ hs' = IF fd = "invalid" THEN "beach" ELSE "connect"
  /\ UNCHANGED << proc, closes, size, offset, pipe_address, heap, badFree,
                  envVars, lastCall, sendVars, recvVars, threadVars, bootVars >>

\* Connect returning at once when connect () fails, past the cleanup
Connect_EarlyReturn ==
  /\ proc = "alive" /\ hs = "connect"
  /\ \E rc \in {0, -1} : hs' = IF rc = -1 THEN "Done" ELSE "send"
  /\ UNCHANGED << proc, s, closes, size, offset, pipe_address, heap, badFree,
                  envVars, lastCall, sendVars, recvVars, threadVars, bootVars >>

\* if (connect (s, ...) == -1) goto beach;
Connect ==
  /\ proc = "alive" /\ hs = "connect"
  /\ \E rc \in {0, -1} : hs' = IF rc = -1 THEN "beach" ELSE "send"
  /\ UNCHANGED << proc, s, closes, size, offset, pipe_address, heap, badFree,
                  envVars, lastCall, sendVars, recvVars, threadVars, bootVars >>

\* frida_loader_send: vasprintf (&v, format, vl) succeeds; send_value takes
\* size = strlen (v)
Render ==
  /\ proc = "alive" /\ hs = "send"
  /\ v' = [ptr |-> "v", str |-> Decimal(pid)]
  /\ heap' = [Alloc(heap, "v") EXCEPT !["v"].bytes = Decimal(pid)]
  /\ size' = SizeOf(Decimal(pid))
  /\ offset' = 0
  /\ hs' = "send_size"
  /\ UNCHANGED << proc, s, closes, success, sent, pipe_address, badFree,
                  envVars, lastCall, recvVars, threadVars, bootVars >>

\* frida_loader_send: vasprintf fails and its result is not checked, so v is
\* indeterminate: strlen (v) faults, or v is read as whatever bytes it points at
RenderFails ==
  /\ proc = "alive" /\ hs = "send"
  /\ \/ /\ proc' = "SIGSEGV"
        /\ UNCHANGED << v, size, offset, hs >>
     \/ /\ \E g \in SeqsUpTo(Bytes, MaxOverrun) :
             /\ v' = [ptr |-> "indeterminate", str |-> g]
             /\ size' = SizeOf(g)
        /\ offset' = 0
        /\ hs' = "send_size"
        /\ UNCHANGED proc
  /\ UNCHANGED << s, closes, success, sent, pipe_address, heap, badFree,
                  envVars, lastCall, recvVars, threadVars, bootVars >>

\* send_value: frida_loader_send_bytes (s, &size, sizeof (size)), one send ()
SendSize ==
  /\ proc = "alive" /\ hs = "send_size"
  /\ \E r \in SendResults(SizeLen - offset) :
       LET st == send_bytes(offset, SizeLen, r) IN
       /\ sent' = IF r.n > 0 THEN Append(sent, size) ELSE sent
       /\ lastCall' = Kind(r)
       /\ CASE st.ret = "loop"  -> /\ offset' = st.offset
                                   /\ UNCHANGED << hs, success >>
            [] st.ret = "false" -> /\ success' = FALSE
                                   /\ hs' = "send_ret"
                                   /\ UNCHANGED offset
            [] st.ret = "true"  -> /\ offset' = 0
                                   /\ success' = (size = 0)
                                   /\ hs' = IF size = 0 THEN "send_ret" ELSE "send_data"
  /\ UNCHANGED << proc, s, closes, v, size, pipe_address, heap, badFree,
                  envVars, recvVars, threadVars, bootVars >>

\* send_value: frida_loader_send_bytes (s, v, size), one send ()
SendData ==
  /\ proc = "alive" /\ hs = "send_data"
  /\ \E r \in SendResults(size - offset) :
       LET st == send_bytes(offset, size, r) IN
       /\ sent' = IF r.n > 0
                  THEN sent \o SubSeq(v.str, offset + 1, offset + r.n)
                  ELSE sent
       /\ lastCall' = Kind(r)
       /\ offset' = st.offset
       /\ CASE st.ret = "loop"  -> UNCHANGED << hs, success >>
            [] st.ret = "false" -> success' = FALSE /\ hs' = "send_ret"
            [] st.ret = "true"  -> success' = TRUE /\ hs' = "send_ret"
  /\ UNCHANGED << proc, s, closes, v, size, pipe_address, heap, badFree,
                  envVars, recvVars, threadVars, bootVars >>

\* frida_loader_send: free (v); return success;  on_load: if (!...) goto beach;
\* otherwise frida_loader_recv_value (s) is entered for the rendezvous address
SendRet ==
  /\ proc = "alive" /\ hs = "send_ret"
  /\ heap' = Free(heap, v.ptr, "startup")
  /\ badFree' = badFree \cup BadFree(heap, v.ptr, "frida_loader_send")
  /\ IF success
     THEN /\ hs' = "addr_size"
          /\ rx' = [rx EXCEPT !["addr"] = "busy"]
          /\ offset' = 0
     ELSE /\ hs' = "beach"
          /\ UNCHANGED << rx, offset >>
  /\ UNCHANGED << proc, s, closes, size, pipe_address, rpos, buf, ret,
                  envVars, lastCall, sendVars, threadVars, bootVars >>

\* how a failed recv () is recorded
Failure(r) == IF r.n = 0 THEN "closed" ELSE "error"

\* recv_value returning NULL without releasing buf
recv_value_fail_NoFree(h, p) == h

\* recv_value: if the payload cannot be received, free (buf); return NULL;
recv_value_fail(h, p) == Free(h, p, "startup")

\* recv_value: frida_loader_recv_bytes (s, &size, sizeof (size)), one recv ()
\* on a channel that carries the bytes str; on success buf = malloc (size),
\* which may return NULL, and for size 0 the second frida_loader_recv_bytes
\* returns true without a call
RecvSizeOn(str, w) ==
  /\ proc = "alive" /\ hs = w \o "_size"
  /\ \E r \in RecvResultsOn(str, w, SizeLen - offset) :
       LET st == recv_bytes(offset, SizeLen, r) IN
       /\ lastCall' = Kind(r)
       /\ rpos' = IF r.n > 0 THEN rpos + r.n ELSE rpos
       /\ size' = IF r.n > 0 THEN str[rpos + 1] % Uint8Mod ELSE size
       /\ CASE st.ret = "loop"  -> UNCHANGED << hs, offset, buf, ret, rx, heap >>
            [] st.ret = "false" -> /\ ret' = "NULL"
                                   /\ rx' = [rx EXCEPT ![w] = Failure(r)]
                                   /\ hs' = w \o "_ret"
                                   /\ UNCHANGED << offset, buf, heap >>
            [] st.ret = "true"  ->
                 \E p \in {"NULL", w} :
                   /\ buf' = p
                   /\ heap' = IF p = w THEN Alloc(heap, w) ELSE heap
                   /\ offset' = 0
                   /\ IF size' = 0
                      THEN /\ ret' = p
                           /\ rx' = [rx EXCEPT ![w] = "complete"]
                           /\ hs' = w \o "_ret"
                      ELSE /\ hs' = w \o "_data"
                           /\ UNCHANGED << ret, rx >>
  /\ UNCHANGED << proc, s, closes, pipe_address, badFree,
                  envVars, sendVars, threadVars, bootVars >>

\* recv_value: frida_loader_recv_bytes (s, buf, size), one recv () on a channel
\* that carries the bytes str; on failure free (buf); return NULL; on
\* completion return buf
RecvDataOn(str, w) ==
  /\ proc = "alive" /\ hs = w \o "_data"
  /\ \E r \in RecvResultsOn(str, buf, size - offset) :
       LET st   == recv_bytes(offset, size, r)
           data == IF r.n > 0 THEN SubSeq(str, rpos + 1, rpos + r.n) ELSE <<>>
           h    == IF r.n > 0
                   THEN [heap EXCEPT ![buf].bytes = SubSeq(@, 1, offset) \o data]
                   ELSE heap
       IN
       /\ lastCall' = Kind(r)
       /\ rpos' = rpos + Len(data)
       /\ offset' = st.offset
       /\ CASE st.ret = "loop"  -> heap' = h /\ UNCHANGED << hs, ret, rx >>
            [] st.ret = "false" -> /\ heap' = recv_value_fail(h, buf)
                                   /\ ret' = "NULL"
                                   /\ rx' = [rx EXCEPT ![w] = Failure(r)]
                                   /\ hs' = w \o "_ret"
            [] st.ret = "true"  -> /\ heap' = h
                                   /\ ret' = buf
                                   /\ rx' = [rx EXCEPT ![w] = "complete"]
                                   /\ hs' = w \o "_ret"
  /\ UNCHANGED << proc, s, closes, size, buf, pipe_address, badFree,
                  envVars, sendVars, threadVars, bootVars >>

\* the two on the control channel
RecvSize(w) == RecvSizeOn(Stream, w)
RecvData(w) == RecvDataOn(Stream, w)

RecvAddrSize == RecvSize("addr")
RecvAddrData == RecvData("addr")
RecvTokSize  == RecvSize("tok")
RecvTokData  == RecvData("tok")

\* AddrRet without the test for NULL
AddrRet_NoCheck ==
  /\ proc = "alive" /\ hs = "addr_ret"
  /\ pipe_address' = ret
  /\ hs' = "create"
  /\ UNCHANGED << proc, s, closes, size, offset, heap, badFree,
                  envVars, lastCall, sendVars, recvVars, threadVars, bootVars >>

\* pipe_address = frida_loader_recv_value (s);
\* if (pipe_address == NULL) goto beach;
AddrRet ==
  /\ proc = "alive" /\ hs = "addr_ret"
  /\ pipe_address' = ret
  /\ hs' = IF ret = "NULL" THEN "beach" ELSE "create"
  /\ UNCHANGED << proc, s, closes, size, offset, heap, badFree,
                  envVars, lastCall, sendVars, recvVars, threadVars, bootVars >>

\* pthread_create (&thread, NULL, frida_loader_run, pipe_address); the result
\* is not checked, and on failure the contents of thread are undefined
Create ==
  /\ proc = "alive" /\ hs = "create"
  /\ \E rc \in {"ok", "EAGAIN"} :
       IF rc = "ok"
       THEN thread' = "valid" /\ bpc' = "Loading"
       ELSE thread' = "indeterminate" /\ UNCHANGED bpc
  /\ hs' = "detach"
  /\ UNCHANGED << proc, s, closes, size, offset, pipe_address, heap, badFree,
                  envVars, lastCall, sendVars, recvVars, detached, badThreadOp,
                  agent, agent_main, entryCalls, entryArgs, dlcloses >>

\* Detach going to the cleanup without receiving the resume token
Detach_NoWait ==
  /\ proc = "alive" /\ hs = "detach"
  /\ \/ /\ thread = "valid"
        /\ detached' = TRUE
        /\ hs' = "beach"
        /\ UNCHANGED << proc, badThreadOp >>
     \/ /\ thread # "valid"
        /\ badThreadOp' = TRUE
        /\ \/ hs' = "beach" /\ UNCHANGED proc
           \/ proc' = "SIGSEGV" /\ UNCHANGED hs
        /\ UNCHANGED detached
  /\ offset' = 0
  /\ UNCHANGED << s, closes, size, pipe_address, heap, badFree, rpos, buf,
                  ret, rx, thread, envVars, lastCall, sendVars, bootVars >>

\* pthread_detach (thread); then frida_loader_recv_value (s) is entered for the
\* resume token.  On an indeterminate handle the call is undefined: it returns
\* an error that is ignored, or faults.
Detach ==
  /\ proc = "alive" /\ hs = "detach"
  /\ \/ /\ thread = "valid"
        /\ detached' = TRUE
        /\ hs' = "tok_size"
        /\ rx' = [rx EXCEPT !["tok"] = "busy"]
        /\ UNCHANGED << proc, badThreadOp >>
     \/ /\ thread # "valid"
        /\ badThreadOp' = TRUE
        /\ \/ /\ hs' = "tok_size"
              /\ rx' = [rx EXCEPT !["tok"] = "busy"]
              /\ UNCHANGED proc
           \/ /\ proc' = "SIGSEGV"
              /\ UNCHANGED << hs, rx >>
        /\ UNCHANGED detached
  /\ offset' = 0
  /\ UNCHANGED << s, closes, size, pipe_address, heap, badFree, rpos, buf,
                  ret, thread, envVars, lastCall, sendVars, bootVars >>

\* TokRet treating a failed receive as an abort that takes the address back
TokRet_Undo ==
  /\ proc = "alive" /\ hs = "tok_ret"
  /\ LET p == IF ret = "NULL" THEN pipe_address ELSE ret IN
     /\ heap' = Free(heap, p, "startup")
     /\ badFree' = badFree \cup BadFree(heap, p, "frida_loader_on_load")
  /\ hs' = "beach"
  /\ UNCHANGED << proc, s, closes, size, offset, pipe_address,
                  envVars, lastCall, sendVars, recvVars, threadVars, bootVars >>

\* permission_to_resume = frida_loader_recv_value (s);
\* free (permission_to_resume);
TokRet ==
  /\ proc = "alive" /\ hs = "tok_ret"
  /\ heap' = Free(heap, ret, "startup")
  /\ badFree' = badFree \cup BadFree(heap, ret, "frida_loader_on_load")
  /\ hs' = "beach"
  /\ UNCHANGED << proc, s, closes, size, offset, pipe_address,
                  envVars, lastCall, sendVars, recvVars, threadVars, bootVars >>

\* Beach joining the bootstrap thread before it cleans up
Beach_AfterJoin ==
  /\ proc = "alive" /\ hs = "beach"
  /\ thread = "valid" => bpc = "Exited"
  /\ IF s # "invalid"
     THEN s' = "closed" /\ closes' = closes + 1
     ELSE UNCHANGED << s, closes >>
  /\ hs' = "Done"
  /\ UNCHANGED << proc, size, offset, pipe_address, heap, badFree,
                  envVars, lastCall, sendVars, recvVars, threadVars, bootVars >>

\* beach: if (s != -1) close (s); free (callback_path); return
Beach ==
  /\ proc = "alive" /\ hs = "beach"
  /\ IF s # "invalid"
     THEN s' = "closed" /\ closes' = closes + 1
     ELSE UNCHANGED << s, closes >>
  /\ hs' = "Done"
  /\ UNCHANGED << proc, size, offset, pipe_address, heap, badFree,
                  envVars, lastCall, sendVars, recvVars, threadVars, bootVars >>

(***************************************************************************)
(* The bootstrap thread: frida_loader_run (user_data = pipe_address).      *)
(***************************************************************************)
\* the strings a callee can read from a char * that points at block contents
\* mem: up to the first zero byte; with none in the block the read runs past
\* its end, into bytes the program never wrote
StringsReadFrom(mem) ==
  IF HasTerminator(mem) THEN {CString(mem)}
  ELSE {mem \o CString(g) : g \in SeqsUpTo(Bytes, MaxOverrun)}

\* Dlopen without the test of its result
Dlopen_IgnoreFailure ==
  /\ proc = "alive" /\ bpc = "Loading"
  /\ \E h \in {"NULL", "open"} :
       /\ agent' = h
       /\ bpc' = "Loaded"
  /\ UNCHANGED << proc, hs, s, closes, size, offset, pipe_address, heap, badFree,
                  envVars, lastCall, sendVars, recvVars, threadVars,
                  agent_main, entryCalls, entryArgs, dlcloses >>

\* agent = dlopen (agent_path, RTLD_GLOBAL | RTLD_LAZY);
\* if (agent == NULL) goto beach;
Dlopen ==
  /\ proc = "alive" /\ bpc = "Loading"
  /\ \E h \in {"NULL", "open"} :
       /\ agent' = h
       /\ bpc' = IF h = "NULL" THEN "Beach" ELSE "Loaded"
  /\ UNCHANGED << proc, hs, s, closes, size, offset, pipe_address, heap, badFree,
                  envVars, lastCall, sendVars, recvVars, threadVars,
                  agent_main, entryCalls, entryArgs, dlcloses >>

\* agent_main = dlsym (agent, "frida_agent_main") finds the symbol;
\* agent_main (pipe_address, NULL, 0): the callee reads its first argument as a
\* string, which faults when the read leaves mapped memory
Invoke ==
  /\ proc = "alive" /\ bpc = "Loaded"
  /\ agent_main' = "found"
  /\ LET mem == Mem(heap, pipe_address) IN
     \/ /\ pipe_address \in Blocks
        /\ \E str \in StringsReadFrom(mem) :
             entryArgs' = [data_string      |-> str,
                           mapped_range     |-> NULL,
                           parent_thread_id |-> 0,
                           terminated       |-> HasTerminator(mem),
                           live             |-> heap[pipe_address].st = "live"]
        /\ entryCalls' = entryCalls + 1
        /\ bpc' = "Running"
        /\ UNCHANGED proc
     \/ /\ ~ HasTerminator(mem)
        /\ proc' = "SIGSEGV"
        /\ entryCalls' = entryCalls + 1
        /\ entryArgs' = [data_string      |-> mem,
                         mapped_range     |-> NULL,
                         parent_thread_id |-> 0,
                         terminated       |-> FALSE,
                         live             |-> pipe_address \in Blocks
                                                /\ heap[pipe_address].st = "live"]
        /\ UNCHANGED bpc
  /\ UNCHANGED << hs, s, closes, size, offset, pipe_address, heap, badFree,
                  envVars, lastCall, sendVars, recvVars, threadVars, agent, dlcloses >>

\* dlsym returns NULL: assert (agent_main != NULL) aborts the process; with
\* assertions compiled out (NDEBUG) the call goes through a null pointer
SymbolMissing ==
  /\ proc = "alive" /\ bpc = "Loaded"
  /\ agent_main' = "NULL"
  /\ \E sig \in {"SIGABRT", "SIGSEGV"} : proc' = sig
  /\ UNCHANGED << hs, s, closes, size, offset, pipe_address, heap, badFree,
                  envVars, lastCall, sendVars, recvVars, threadVars,
                  bpc, agent, entryCalls, entryArgs, dlcloses >>

\* agent_main returns
Return ==
  /\ proc = "alive" /\ bpc = "Running"
  /\ bpc' = "Unloading"
  /\ UNCHANGED << proc, hs, s, closes, size, offset, pipe_address, heap, badFree,
                  envVars, lastCall, sendVars, recvVars, threadVars,
                  agent, agent_main, entryCalls, entryArgs, dlcloses >>

\* dlclose (agent);
Dlclose ==
  /\ proc = "alive" /\ bpc = "Unloading"
  /\ agent' = "closed"
  /\ dlcloses' = dlcloses + 1
  /\ bpc' = "Beach"
  /\ UNCHANGED << proc, hs, s, closes, size, offset, pipe_address, heap, badFree,
                  envVars, lastCall, sendVars, recvVars, threadVars,
                  agent_main, entryCalls, entryArgs >>

\* RunBeach releasing the address only when the module was loaded
RunBeach_LeakOnLoadFailure ==
  /\ proc = "alive" /\ bpc = "Beach"
  /\ heap' = IF agent = "NULL" THEN heap ELSE Free(heap, pipe_address, "bootstrap")
  /\ badFree' = badFree
  /\ bpc' = "Exited"
  /\ UNCHANGED << proc, hs, s, closes, size, offset, pipe_address,
                  envVars, lastCall, sendVars, recvVars, threadVars,
                  agent, agent_main, entryCalls, entryArgs, dlcloses >>

\* beach: free (agent_path); free (pipe_address); return NULL;
RunBeach ==
  /\ proc = "alive" /\ bpc = "Beach"
  /\ heap' = Free(heap, pipe_address, "bootstrap")
  /\ badFree' = badFree \cup BadFree(heap, pipe_address, "frida_loader_run")
  /\ bpc' = "Exited"
  /\ UNCHANGED << proc, hs, s, closes, size, offset, pipe_address,
                  envVars, lastCall, sendVars, recvVars, threadVars,
                  agent, agent_main, entryCalls, entryArgs, dlcloses >>

(***************************************************************************)
(* The two threads.                                                        *)
(***************************************************************************)
StartupNext ==
  \/ Socket \/ Connect \/ Render \/ RenderFails \/ SendSize \/ SendData \/ SendRet
  \/ RecvAddrSize \/ RecvAddrData \/ AddrRet \/ Create \/ Detach
  \/ RecvTokSize \/ RecvTokData \/ TokRet \/ Beach

BootstrapNext ==
  \/ Dlopen \/ Invoke \/ SymbolMissing \/ Return \/ Dlclose \/ RunBeach

Next == StartupNext \/ BootstrapNext

Spec == Init /\ [][Next]_vars

(***************************************************************************)
(* The value codec on its own: frida_loader_send_value (s, v) on a         *)
(* connected socket whose peer hands the bytes back (a loopback), followed *)
(* by frida_loader_recv_value (s) on what the channel accepted.            *)
(***************************************************************************)
\* lengths around the limits of the length byte
LongLens == {127, 255, 256, 300}

\* a string of n non-zero bytes in which neighbours differ
Pattern(n) == [i \in 1 .. n |-> 1 + (i % 255)]

\* the memory v points at, up to its terminating zero byte: every short
\* sequence of bytes (zero bytes inside included) and the long strings
CodecInputs == SeqsUpTo(Bytes, MaxValLen) \cup {Pattern(n) : n \in LongLens}

\* frida_loader_send_value has been entered: size = strlen (v), offset = 0
CodecInit ==
  /\ proc = "alive"
  /\ hs = "send_value"
  /\ s = "open"
  /\ closes = 0
  /\ pid = 0
  /\ \E x \in CodecInputs :
       /\ v = [ptr |-> "v", str |-> x]
       /\ size = 0
       /\ heap = [b \in Blocks |->
                   IF b = "v" THEN [NoBlock EXCEPT !.st = "live", !.bytes = x]
                   ELSE NoBlock]
  /\ success = FALSE
  /\ offset = 0
  /\ sent = <<>>
  /\ addr = <<>>
  /\ token = <<>>
  /\ rpos = 0
  /\ buf = "NULL"
  /\ ret = "NULL"
  /\ rx = [w \in {"addr", "tok"} |-> "idle"]
  /\ pipe_address = "unset"
  /\ badFree = {}
  /\ thread = "unset"
  /\ detached = FALSE
  /\ badThreadOp = FALSE
  /\ bpc = "NotStarted"
  /\ agent = "unset"
  /\ agent_main = "unset"
  /\ entryCalls = 0
  /\ entryArgs = << >>
  /\ dlcloses = 0
  /\ lastCall = "none"

\* frida_loader_send_value: uint8_t size = strlen (v);
SendValue ==
  /\ proc = "alive" /\ hs = "send_value"
  /\ size' = SizeOf(v.str)
  /\ offset' = 0
  /\ hs' = "send_size"
  /\ UNCHANGED << proc, s, closes, pipe_address, heap, badFree,
                  envVars, lastCall, sendVars, recvVars, threadVars, bootVars >>

\* frida_loader_recv_value on the bytes the channel accepted
LoopRecvSize == RecvSizeOn(sent, "addr")
LoopRecvData == RecvDataOn(sent, "addr")

CodecNext == SendValue \/ SendSize \/ SendData \/ SendRet \/ LoopRecvSize \/ LoopRecvData

CodecSpec == CodecInit /\ [][CodecNext]_vars

(***************************************************************************)
(* Properties.                                                             *)
(***************************************************************************)
Dispatched == thread = "valid"
BootstrapActive == bpc \in {"Loading", "Loaded", "Running", "Unloading", "Beach"}
AddrFrameLen == Len(Frame(addr))
\* the ordinary start of a run: the process id was rendered and sent in full
Announced == v.ptr = "v" /\ success

\* C1: frida_agent_main is invoked only when the handshake has received the
\* whole rendezvous address value: the receive is recorded complete, the length
\* byte and every payload byte it announces have been consumed from the stream,
\* and the block handed over holds exactly those bytes.  It is never invoked
\* while that receive is in progress or after it failed.
C1_EntryOnlyAfterAddress ==
  entryCalls > 0 =>
    /\ rx["addr"] = "complete"
    /\ rpos >= AddrFrameLen
    /\ pipe_address = "addr"
    /\ Len(heap["addr"].bytes) = Stream[1]
    /\ heap["addr"].bytes = addr

C1_Witness ==
  entryCalls > 0 /\ Len(addr) >= 2 /\ hs = "tok_size"

\* C2: when frida_loader_on_load has returned, a socket that was created has
\* been closed by exactly one close call and is not open; when socket () failed
\* no close call was issued.  No path issues a second close.
C2_SocketClosedOnce ==
  /\ closes <= 1
  /\ s = "open" => closes = 0
  /\ hs = "Done" =>
       IF s = "invalid" THEN closes = 0 ELSE s = "closed" /\ closes = 1

\* the routine has returned after connect () failed: nothing was rendered or sent
C2_Witness ==
  hs = "Done" /\ s = "closed" /\ v.ptr = "unset" /\ closes = 1

\* C3: when pthread_create fails after the rendezvous address was received, the
\* handshake aborts: no pthread call is made on the handle that was never
\* filled in, the resume token is not awaited, and once the routine has
\* returned the socket is closed and the rendezvous address block is released.
\* (Stated for runs that started ordinarily, with an address that is not empty.)
C3_CreateFailureAborts ==
  (Announced /\ Len(addr) >= 1 /\ thread = "indeterminate") =>
    /\ ~ badThreadOp
    /\ rx["tok"] = "idle"
    /\ hs = "Done" => s = "closed" /\ heap["addr"].st # "live"

\* C4: when the loaded module lacks frida_agent_main the host process stays
\* alive and the entry point is not invoked.  (Stated for runs that started
\* ordinarily, with an address that is not empty.)
C4_MissingSymbolHarmless ==
  (Announced /\ Len(addr) >= 1 /\ agent_main = "NULL") =>
    proc = "alive" /\ entryCalls = 0

\* C5: when the controller closes the connection before the rendezvous address
\* value is complete (at the length byte or inside the payload), no bootstrap
\* thread is created, frida_loader_recv_value is not entered a second time, the
\* startup thread is alive on the path to its return, and once it has returned
\* the socket is closed.
C5_NoAddressNoAgent ==
  rx["addr"] = "closed" =>
    /\ thread = "unset" /\ bpc = "NotStarted" /\ entryCalls = 0
    /\ rx["tok"] = "idle"
    /\ proc = "alive"
    /\ hs \in {"addr_ret", "beach", "Done"}
    /\ hs # "Done" => ENABLED (AddrRet \/ Beach)
    /\ hs = "Done" => s = "closed" /\ closes = 1

\* the controller closed inside the payload and the routine has returned
C5_Witness ==
  rx["addr"] = "closed" /\ rpos >= 2 /\ hs = "Done"

\* C6: once the bootstrap thread has been dispatched, frida_loader_on_load has
\* returned only if the resume-token receive finished: the whole token value
\* was consumed from the stream, or the receive reported a failure (peer closed
\* or an error other than an interruption).
C6_ReturnOnlyAfterResume ==
  (hs = "Done" /\ Dispatched) =>
    /\ rx["tok"] \in {"complete", "closed", "error"}
    /\ rx["tok"] = "complete" => rpos = Len(Stream)

C6_Witness ==
  hs = "Done" /\ Dispatched /\ rx["tok"] = "complete" /\ Len(token) >= 1

\* C7: after the resume-token receive failed with the bootstrap thread
\* dispatched, the startup thread only goes on to return and close the socket;
\* it passes free nothing but NULL, the block of the token is released at most
\* once, and the rendezvous address block is never released by the startup
\* thread: it stays live for as long as the bootstrap thread is before its own
\* release of it.
C7_ResumeFailureHarmless ==
  (rx["tok"] \in {"closed", "error"} /\ Dispatched) =>
    /\ hs \in {"tok_ret", "beach", "Done"}
    /\ hs = "Done" => s = "closed" /\ closes = 1
    /\ "frida_loader_on_load" \notin badFree
    /\ heap["tok"].frees <= 1
    /\ heap["addr"].by # "startup"
    /\ BootstrapActive => heap["addr"].st = "live"

\* the token receive failed, the routine returned, the agent is running
C7_Witness ==
  /\ rx["tok"] = "closed" /\ Dispatched /\ hs = "Done"
  /\ bpc = "Running" /\ heap["addr"].st = "live"

\* C8: while the process is alive and frida_loader_on_load has not returned,
\* the startup thread always has a step it can take, whatever the position of
\* the bootstrap thread; and the bootstrap thread is detached, not joined.
C8_StartupNeverWaits ==
  /\ (proc = "alive" /\ hs # "Done") => ENABLED StartupNext
  /\ (Dispatched /\ hs \in {"tok_size", "tok_data", "tok_ret", "beach", "Done"})
       => detached

\* the routine has returned and the bootstrap thread has not yet loaded the module
C8_Witness ==
  hs = "Done" /\ bpc = "Loading" /\ rx["tok"] = "complete"

\* C9: when the bootstrap thread was started, the rendezvous address block is
\* released at most once and never by the startup thread; it is live until the
\* bootstrap thread reaches its release, in particular at the invocation of the
\* entry point and while the entry point runs; and when the bootstrap thread
\* has exited, after a failed load as after the entry point returned, the block
\* has been released exactly once, by the bootstrap thread.
C9_AddressReleasedOnceByBootstrap ==
  Dispatched =>
    /\ heap["addr"].frees <= 1
    /\ heap["addr"].by \in {"none", "bootstrap"}
    /\ BootstrapActive => heap["addr"].st = "live" /\ heap["addr"].frees = 0
    /\ entryCalls > 0 => entryArgs.live
    /\ bpc = "Exited" =>
         /\ heap["addr"].st = "freed"
         /\ heap["addr"].frees = 1
         /\ heap["addr"].by = "bootstrap"
         /\ "frida_loader_run" \notin badFree

\* the entry point was invoked and returned, the thread has exited
C9_Witness ==
  bpc = "Exited" /\ entryCalls = 1 /\ dlcloses = 1 /\ heap["addr"].frees = 1

\* C10: for an address of 1 to 255 bytes, the string the entry point reads from
\* its first argument is the address the controller sent, read without leaving
\* the block; the second and third arguments are NULL and 0.  (Stated for runs
\* that started ordinarily and for addresses that are text, with no zero byte
\* inside.)
C10_EntryReadsExactAddress ==
  (Announced /\ entryCalls > 0 /\ Len(addr) \in 1 .. 255 /\ ~ HasTerminator(addr)) =>
    /\ entryArgs.data_string = addr
    /\ entryArgs.terminated
    /\ entryArgs.mapped_range = NULL
    /\ entryArgs.parent_thread_id = 0

(***************************************************************************)
(* Properties of the codec, over CodecSpec: frida_loader_send_value on one *)
(* end of a channel and frida_loader_recv_value on the other.  buf, when   *)
(* it is not "NULL", is the block recv_value obtained from malloc.         *)
(***************************************************************************)
Received == rx["addr"] = "complete" /\ buf # "NULL"

\* C11: a string of at most 255 bytes (text, with no zero byte inside) sent by
\* frida_loader_send_value and received by frida_loader_recv_value arrives
\* whole: the wire carries its length in one byte followed by its bytes, the
\* receiver has consumed all of it, and the block recv_value returns is live
\* and holds exactly the bytes of the string, in order.  (Stated for receives
\* whose malloc returned a block.)
C11_RoundTrip ==
  (Received /\ ~ HasTerminator(v.str) /\ Len(v.str) <= 255) =>
    /\ sent = << Len(v.str) >> \o v.str
    /\ rpos = Len(sent)
    /\ ret = buf
    /\ heap[buf].st = "live"
    /\ heap[buf].bytes = v.str

\* a string of the greatest length, 255 bytes, has been received
C11_Witness ==
  Received /\ ~ HasTerminator(v.str) /\ Len(v.str) = 255 /\ hs = "addr_ret"

\* C12, as the specification states it: values with zero bytes inside, and
\* values of 0, 1, 127 and 255 bytes, are transferred in full: the length byte
\* is the number of bytes of the value and every byte of it arrives.
C12_TransfersEveryByte ==
  (Received /\ (HasTerminator(v.str) \/ Len(v.str) \in {0, 1, 127, 255})) =>
    /\ sent[1] = Len(v.str)
    /\ heap[buf].bytes = v.str

\* C12, amended: frida_loader_send_value takes the length of its value with
\* strlen, so what is transferred is the value up to its first zero byte.  A
\* value with no zero byte of 0, 1, 127 or 255 bytes is transferred in full; a
\* value with a zero byte inside is sent with a length byte that counts the
\* bytes before the first zero, and only those bytes are sent and received.
C12_TransfersUpToFirstZero ==
  /\ hs \in {"send_size", "send_data", "send_ret"} =>
       size = Len(CString(v.str)) % Uint8Mod
  /\ (Received /\ (HasTerminator(v.str) \/ Len(v.str) \in {0, 1, 127, 255})) =>
       /\ sent[1] = Len(CString(v.str))
       /\ heap[buf].bytes = CString(v.str)
       /\ ~ HasTerminator(v.str) => heap[buf].bytes = v.str

\* a value of three bytes with a zero byte in the middle has been received as
\* its first byte alone
C12_Witness ==
  Received /\ v.str = << 65, 0, 65 >> /\ heap[buf].bytes = << 65 >>

\* the bytes the receive loop has stored so far are the first offset bytes of
\* the payload on the wire, and the read position is just behind them
StoredPrefix ==
  /\ heap[buf].bytes = SubSeq(sent, SizeLen + 1, SizeLen + offset)
  /\ rpos = SizeLen + offset

\* C13: frida_loader_recv_bytes returns success only when exactly the
\* requested number of bytes has been stored, in stream order, however recv
\* fragments them: while the loop runs the stored bytes are the prefix of the
\* payload of length offset, with offset short of size; at success offset is
\* size and the stored bytes are the whole payload.  A recv call interrupted
\* by a signal (EINTR) is retried: it leaves the offset, the stored bytes and
\* the read position as they were and the loop stays in the same receive.
C13_RecvExact ==
  /\ [](/\ (hs = "addr_data" /\ buf # "NULL") => StoredPrefix /\ offset < size
        /\ Received =>
             /\ offset = size
             /\ StoredPrefix
             /\ Len(heap[buf].bytes) = size)
  /\ [][(lastCall' = "EINTR" /\ hs \in {"addr_size", "addr_data"}) =>
          UNCHANGED << hs, offset, size, rpos, heap, buf, ret, rx >>]_vars

\* a recv call was interrupted in the middle of a payload that is arriving in
\* fragments
C13_Witness ==
  /\ hs = "addr_data" /\ buf # "NULL" /\ lastCall = "EINTR"
  /\ offset > 1 /\ offset < size - 1

\* C15: frida_loader_send_bytes returns success only when every requested byte
\* has been written, in order, however send splits them: while the loop runs
\* the wire carries the length byte and the first offset bytes of the value,
\* with offset short of size; after success it carries all size bytes.  A send
\* call interrupted by a signal (EINTR) is retried with the offset, the bytes
\* on the wire and the position in the routine unchanged; the call that makes
\* the routine fail is one that failed with an error other than EINTR.
C15_SendExact ==
  /\ [](/\ hs = "send_size" => sent = << >> /\ offset = 0
        /\ hs = "send_data" =>
             /\ sent = << size >> \o SubSeq(v.str, 1, offset)
             /\ offset < size
        /\ success => sent = << size >> \o SubSeq(v.str, 1, size)
        /\ hs \in {"send_size", "send_data"} =>
             lastCall \in {"none", "data", "EINTR"}
        /\ (hs = "send_ret" /\ ~ success) => lastCall = "error")
  /\ [][(lastCall' = "EINTR" /\ hs \in {"send_size", "send_data"}) =>
          UNCHANGED << hs, offset, sent, success >>]_vars

\* a send call was interrupted in the middle of a value of 255 bytes that is
\* being written in pieces
C15_Witness ==
  /\ hs = "send_data" /\ lastCall = "EINTR" /\ size = 255
  /\ offset > 1 /\ offset < size - 1

\* C20: for a string of any length frida_loader_send_value emits one length
\* byte equal to the length modulo 256 and then at most that many bytes, the
\* first bytes of the string, and exactly that many when it succeeds; no
\* payload byte is on the wire unless the length byte is, and the receiver
\* never reads past what was sent.
C20_LengthByteModulo256 ==
  LET len == Len(CString(v.str)) IN
  /\ hs \in {"send_size", "send_data", "send_ret"} =>
       size = len % Uint8Mod /\ size < Uint8Mod
  /\ sent # << >> =>
       /\ sent[1] = len % Uint8Mod
       /\ Len(sent) <= SizeLen + sent[1]
       /\ SubSeq(sent, SizeLen + 1, Len(sent)) = SubSeq(v.str, 1, Len(sent) - SizeLen)
  /\ success => Len(sent) = SizeLen + (len % Uint8Mod)
  /\ rpos <= Len(sent)
  /\ Received => Len(heap[buf].bytes) = len % Uint8Mod

\* a string of 300 bytes went out as the length byte 44 and 44 bytes
C20_Witness ==
  success /\ Len(v.str) = 300 /\ Len(sent) = 45 /\ sent[1] = 44

(***************************************************************************)
(* Further properties of the handshake and the bootstrap, over Spec.       *)
(***************************************************************************)

\* C14: when recv reports that the peer closed the connection, or fails with
\* an error other than EINTR, frida_loader_recv_value fails at once: no
\* further receive is made for that value, the buffer it allocated is released
\* (and released once, by the startup thread), the value it returns is NULL,
\* and the partly filled buffer is not handed to the bootstrap thread.
C14_FailedReceiveReleases ==
  /\ \A w \in {"addr", "tok"} :
       rx[w] \in {"closed", "error"} =>
         /\ heap[w].st # "live"
         /\ heap[w].frees <= 1
         /\ hs \notin {w \o "_size", w \o "_data"}
         /\ hs = w \o "_ret" => ret = "NULL"
  /\ rx["addr"] \in {"closed", "error"} =>
       pipe_address # "addr" /\ bpc = "NotStarted" /\ rx["tok"] = "idle"
  /\ lastCall \in {"closed", "error"} =>
       hs \in {"send_ret", "addr_ret", "tok_ret", "beach", "Done"}

\* the controller closed the connection after one byte of a two-byte address:
\* the routine has returned and the block that held the one byte is released
C14_Witness ==
  /\ rx["addr"] = "closed" /\ Len(addr) = 2 /\ Len(heap["addr"].bytes) = 1
  /\ heap["addr"].st = "freed" /\ hs = "Done"

\* C16: a rendezvous address of length zero counts as a failed receive: after
\* the length byte 0 the handshake aborts, no bootstrap thread is created and
\* the resume token is not awaited.  (Stated for runs that started
\* ordinarily.)
C16_EmptyAddressAborts ==
  (Announced /\ addr = << >> /\ rx["addr"] = "complete") =>
    /\ thread = "unset"
    /\ bpc = "NotStarted"
    /\ rx["tok"] = "idle"
    /\ hs \in {"addr_ret", "beach", "Done"}

\* C17: when the process id cannot be rendered the send fails like any other
\* send failure: the process stays alive, nothing is written to the socket,
\* the buffer that was never produced is neither read nor passed to free, and
\* the handshake goes to its cleanup.
C17_RenderFailureAborts ==
  v.ptr = "indeterminate" =>
    /\ proc = "alive"
    /\ sent = << >>
    /\ "frida_loader_send" \notin badFree
    /\ hs \in {"beach", "Done"}

\* C18: the bootstrap thread moves Loading -> Loaded -> Running -> Unloaded in
\* that order.  The entry point is invoked at most once, and only on a module
\* that was loaded; the module is unloaded at most once, and only after the
\* entry point has returned; when loading fails neither happens and the
\* thread goes straight to its cleanup.
C18_BootstrapOrder ==
  /\ [](/\ entryCalls <= 1 /\ dlcloses <= 1
        /\ bpc \in {"NotStarted", "Loading"} => entryCalls = 0 /\ dlcloses = 0
        /\ agent = "NULL" =>
             /\ entryCalls = 0 /\ dlcloses = 0
             /\ bpc \in {"NotStarted", "Loading", "Beach", "Exited"}
        /\ bpc = "Loaded" => agent = "open" /\ dlcloses = 0
        /\ bpc \in {"Running", "Unloading"} =>
             agent = "open" /\ entryCalls = 1 /\ dlcloses = 0
        /\ dlcloses = 1 =>
             /\ entryCalls = 1 /\ agent = "closed"
             /\ bpc \in {"Beach", "Exited"}
        /\ (bpc \in {"Beach", "Exited"} /\ agent # "NULL") =>
             entryCalls = 1 /\ dlcloses = 1)
  /\ [][bpc' # bpc =>
          << bpc, bpc' >> \in {<< "NotStarted", "Loading" >>,
                               << "Loading", "Loaded" >>,
                               << "Loading", "Beach" >>,
                               << "Loaded", "Running" >>,
                               << "Running", "Unloading" >>,
                               << "Unloading", "Beach" >>,
                               << "Beach", "Exited" >>}]_vars

\* the entry point has returned and the module was unloaded; the thread is at
\* its cleanup
C18_Witness ==
  bpc = "Beach" /\ agent = "closed" /\ entryCalls = 1 /\ dlcloses = 1

\* C19: the handshake never stops short of its return, whatever the bootstrap
\* thread does: in every state the startup thread either has returned or has a
\* step to take.  When connect fails the routine is on its way out with no
\* send or recv call made.  (The first part is stated for runs that started
\* ordinarily, with an address that is not empty, and whose pthread_create
\* succeeded.)
C19_HandshakeTerminates ==
  /\ (Announced /\ Len(addr) >= 1 /\ thread # "indeterminate") =>
       (hs = "Done" \/ ENABLED StartupNext)
  /\ (s # "invalid" /\ v.ptr = "unset" /\ hs \in {"beach", "Done"}) =>
       lastCall = "none" /\ sent = << >> /\ rpos = 0

=============================================================================
